---- MODULE Spec2Model ----
(***************************************************************************)
(* LegalEase backend: the in-memory DocumentStorage                        *)
(* (src/backend/services/document_storage.py) as a state machine.          *)
(*                                                                         *)
(* Request threads call store_document, get_document, update_analysis,     *)
(* delete_document and get_stats; the daemon cleanup_worker calls          *)
(* cleanup_expired in a loop.  Every method takes self._lock around its    *)
(* access to self.documents; what a method computes before taking the lock *)
(* (the uuid and expires_at of store_document, the current_time of         *)
(* cleanup_expired) is a step of its own, so the clock can advance and     *)
(* other threads can run between that step and the critical section.       *)
(* Taking the lock is a step, and the critical section with the release    *)
(* that ends it is the next step of the thread that holds the lock.        *)
(*                                                                         *)
(* Time is datetime.utcnow() in abstract ticks.  Optional values are       *)
(* sequences: <<>> is None and <<x>> is x.  Document ids are the integers  *)
(* uuid4 hands out; analysis results are references (1..) into a heap of   *)
(* caller-owned dict objects, 0 standing for None.                         *)
(*                                                                         *)
(* The AIAnalyzer (src/backend/services/ai_analyzer.py) is a flag fixed by *)
(* its constructor and two calls, analyze_document and answer_question,    *)
(* each a step that starts the call and a step in which the API (or the    *)
(* mock text) has answered and the call parses and returns.  The routes of *)
(* src/backend/app.py chain store and analyzer calls.                      *)
(*                                                                         *)
(* The PDFProcessor (src/backend/services/pdf_processor.py) is a pure      *)
(* function of the uploaded bytes: a document is what each of the two      *)
(* libraries makes of it (whether it opens, how many pages, what each page *)
(* yields), a str is the sequence of its characters, and each entry point  *)
(* is one step.  RateLimiter.is_allowed (src/backend/utils/security.py)    *)
(* takes no lock, so each of its reads and writes of self.requests is a    *)
(* step of the calling thread.                                             *)
(***************************************************************************)
EXTENDS Integers, FiniteSets, Sequences, TLC

\* ---------------------------------------------------------------- bounds
MaxTime == 2        \* the clock runs over 0..MaxTime
MaxTimeout == 1     \* session_timeout is drawn from 1..MaxTimeout
MaxResponseLen == 3 \* the API's answer text has at most this many tokens
MaxFew == 2         \* short documents have 0..MaxFew pages
MaxOver == 1        \* long ones up to MaxOver pages more than the page cap
OddPage == 1        \* page_num of the page that differs from the others
MaxAnalyze == 1     \* max_requests of the analyze route, scaled down
MaxQuestion == 2    \* max_requests of the question route, scaled down
Window == 2         \* window_seconds of both routes, in ticks
MaxAdmitted == 2    \* is_allowed is called until it has admitted this many

\* ------------------------------------------------------ program constants
SweepInterval == 300    \* time.sleep(300) after a sweep
RetryBackoff == 60      \* time.sleep(60) after a failed iteration
SummaryLimit == 500     \* response_text[:500] in _fallback_parse_analysis
MaxPages == 50          \* PDFProcessor.max_pages
MinTextLength == 10     \* PDFProcessor.min_text_length

\* ------------------------------------------------------------ input sets
Threads == {"t1", "t2"}             \* request-handling threads
Worker == "cleanup"                 \* the daemon cleanup thread
Procs == Threads \cup {Worker}
NoThread == "none"
\* (text, filename) arguments of store_document; filename: str = None
Uploads == {<<"lease", "a.pdf">>, <<"nda", "None">>}
Objs == {1, 2}                      \* analysis_result dict objects
NoObj == 0                          \* 'analysis_result': None
BogusId == 0                        \* an id no store_document ever returned
Ids == {1, 2}                       \* the ids uuid4 issues, in this order

VARIABLES
    now,              \* datetime.utcnow()
    session_timeout,  \* self.session_timeout
    documents,        \* self.documents: id -> document dict
    lock,             \* self._lock: the thread holding it, or NoThread
    nextId,           \* ids uuid4 has issued so far are 1..nextId-1
    heap,             \* content of each analysis_result dict object
    pc,               \* where each thread is
    op,               \* the locals of a call that computed some before
                      \* taking the lock (store_document, cleanup_expired)
    prev,             \* per thread: the call it completed last (a caller
                      \* knows what it just did and with which arguments)
    last,             \* the call that returned in the step just taken, and
                      \* what it returned; NoReturn after any other step
    delay,            \* the argument of the worker's current time.sleep
    gemini_api_key,   \* AIAnalyzer.gemini_api_key (Config.GEMINI_API_KEY)
    use_gemini_api,   \* AIAnalyzer.use_gemini_api
    request,          \* per thread: the locals of the route it is running
                      \* and of the analyzer call it is inside
    reply,            \* what the analyzer call that returned last returned,
                      \* with its arguments and the answer of the API
    upload,           \* the uploaded FileStorage: its bytes and position
    extracted,        \* what extract_text returned for it
    calls,            \* the strategy calls extract_text made, in order
    from_bytes,       \* what extract_text_from_bytes did on the same bytes
    requests,         \* RateLimiter.requests: identifier -> list of times
    blocked_ips,      \* RateLimiter.blocked_ips
    frame,            \* per thread: the locals of its is_allowed call
    admitted          \* the is_allowed calls that returned True so far:
                      \* identifier, limit and current_time of each

store == <<now, session_timeout, documents, lock, nextId, heap, pc, op, prev,
           last, delay>>

engine == <<gemini_api_key, use_gemini_api, request, reply>>

extractor == <<upload, extracted, calls, from_bytes>>

limiter == <<requests, blocked_ips, frame, admitted>>

front == <<extractor, limiter>>

vars == <<store, engine, front>>

\* ------------------------------------------------------------ documents

\* store_document line 34: expires_at = utcnow() + timedelta(seconds=timeout)
ExpiresAt(t0, timeout) == t0 + timeout

\* Mutant: the filename argument is dropped
NewDocumentNoFilename(text, filename, created, expires) ==
    [text |-> text, filename |-> "None", created_at |-> created,
     expires_at |-> expires, analysis_result |-> NoObj]

\* store_document lines 37-43: the dict inserted under the lock
NewDocument(text, filename, created, expires) ==
    [text |-> text, filename |-> filename, created_at |-> created,
     expires_at |-> expires, analysis_result |-> NoObj]

\* Mutant: the expiry check is missing
IsExpiredNever(t, doc) == FALSE

\* "# Check if expired": datetime.utcnow() > document['expires_at']
IsExpired(t, doc) == t > doc.expires_at

Remove(docs, ids) == [i \in (DOMAIN docs) \ ids |-> docs[i]]

Insert(docs, id, doc) == [i \in (DOMAIN docs) \cup {id} |->
                            IF i = id THEN doc ELSE docs[i]]

\* store_document lines 36-43: self.documents[document_id] = {...}
StoreDocument(docs, id, doc) == Insert(docs, id, doc)

\* document.copy(): a new top-level dict; nested objects stay shared, so the
\* copy carries the same analysis_result reference
ShallowCopy(doc) == doc

\* get_document lines 58-69
GetDocument(docs, id, t) ==
    IF id \notin DOMAIN docs THEN [docs |-> docs, val |-> <<>>]
    ELSE IF IsExpired(t, docs[id])
         THEN [docs |-> Remove(docs, {id}), val |-> <<>>]
         ELSE [docs |-> docs, val |-> <<ShallowCopy(docs[id])>>]

\* Mutant: the result is attached to every entry
UpdateAnalysisAll(docs, id, obj, t) ==
    IF id \notin DOMAIN docs THEN [docs |-> docs, val |-> FALSE]
    ELSE IF IsExpired(t, docs[id])
         THEN [docs |-> Remove(docs, {id}), val |-> FALSE]
         ELSE [docs |-> [i \in DOMAIN docs |->
                           [docs[i] EXCEPT !.analysis_result = obj]],
               val |-> TRUE]

\* update_analysis lines 83-93
UpdateAnalysis(docs, id, obj, t) ==
    IF id \notin DOMAIN docs THEN [docs |-> docs, val |-> FALSE]
    ELSE IF IsExpired(t, docs[id])
         THEN [docs |-> Remove(docs, {id}), val |-> FALSE]
         ELSE [docs |-> [docs EXCEPT ![id].analysis_result = obj],
               val |-> TRUE]

\* delete_document lines 106-110
DeleteDocument(docs, id) ==
    IF id \in DOMAIN docs THEN [docs |-> Remove(docs, {id}), val |-> TRUE]
    ELSE [docs |-> docs, val |-> FALSE]

\* Mutant: the scan collects every entry
ExpiredIdsAll(docs, current_time) == DOMAIN docs

\* cleanup_expired lines 123-126: the ids the scan collects
ExpiredIds(docs, current_time) ==
    {i \in DOMAIN docs : IsExpired(current_time, docs[i])}

\* cleanup_expired lines 123-131
CleanupExpired(docs, current_time) ==
    [docs |-> Remove(docs, ExpiredIds(docs, current_time)),
     val |-> Cardinality(ExpiredIds(docs, current_time))]

SetMin(S) == CHOOSE x \in S : \A y \in S : x <= y
SetMax(S) == CHOOSE x \in S : \A y \in S : x >= y
CreatedTimes(docs) == {docs[i].created_at : i \in DOMAIN docs}

\* get_stats lines 141-152; min/max default=None is <<>>
GetStats(docs) ==
    [total_documents |-> Cardinality(DOMAIN docs),
     oldest_document |-> IF DOMAIN docs = {} THEN <<>>
                         ELSE <<SetMin(CreatedTimes(docs))>>,
     newest_document |-> IF DOMAIN docs = {} THEN <<>>
                         ELSE <<SetMax(CreatedTimes(docs))>>]


\* ------------------------------------------------------- calls and returns

\* The locals of store_document and cleanup_expired when they reach the lock
Call(name, id, text, filename, expires, t0) ==
    [name |-> name, id |-> id, text |-> text, filename |-> filename,
     expires_at |-> expires, current_time |-> t0]

NoCall == Call("none", BogusId, "", "", 0, 0)

\* The value a method returns: get_document a document or None (doc),
\* update_analysis and delete_document a bool (ok), store_document the id,
\* cleanup_expired a count (n), get_stats a dict (stats); the fields a method
\* does not use keep the values of NoValue.
NoValue == [doc |-> <<>>, ok |-> FALSE, n |-> 0, stats |-> <<>>]
DocValue(d) == [NoValue EXCEPT !.doc = d]
BoolValue(b) == [NoValue EXCEPT !.ok = b]
IntValue(n) == [NoValue EXCEPT !.n = n]
StatsValue(st) == [NoValue EXCEPT !.stats = <<st>>]

\* What the call that has just returned returned (val) to which thread (proc),
\* the result reference that thread holds after it (obj), whether the call
\* found an expired entry and removed it (lazy), and how it follows the
\* caller's previous call (after): "store" when that was the store_document
\* that returned this id, "lazy" when that was a get_document that removed
\* an expired entry.
Return(p, name, id, val, obj, lazy, after) ==
    [proc |-> p, op |-> name, id |-> id, val |-> val, obj |-> obj,
     lazy |-> lazy, after |-> after]

NoReturn == Return(NoThread, "none", BogusId, NoValue, NoObj, FALSE, "")

\* What a thread remembers of the call it has just completed: the arguments
\* of a store_document with the id it returned and the clock at line 34, or
\* the id a get_document found expired and removed (op "lazy"); <<>> after
\* any other call.
Stored(id, text, filename, t0) ==
    <<[op |-> "store", id |-> id, text |-> text, filename |-> filename,
       called_at |-> t0]>>

Lazy(id) ==
    <<[op |-> "lazy", id |-> id, text |-> "", filename |-> "",
       called_at |-> 0]>>

After(p, id) ==
    IF prev[p] = <<>> THEN ""
    ELSE IF prev[p][1].op = "store" /\ prev[p][1].id = id THEN "store"
    ELSE IF prev[p][1].op = "lazy" THEN "lazy"
    ELSE ""

\* The thread has just completed a store_document / a get_document that
\* removed an expired entry
HasStored(p) == prev[p] # <<>> /\ prev[p][1].op = "store"
HasLazy(p) == prev[p] # <<>> /\ prev[p][1].op = "lazy"

\* Mutant: the id does not depend on the call
Uuid4Constant(n) == 1

\* uuid.uuid4(): an id different from every id issued before
Uuid4(n) == n

\* Mutant: the lock does not block
LockFreeAlways == TRUE

\* `with self._lock:` blocks until no thread holds the lock
LockFree == lock = NoThread

\* ------------------------------------------------------------ AIAnalyzer
\* (src/backend/services/ai_analyzer.py)  A Python str is a sequence of
\* tokens: a brace, a run of other characters, or one member of a JSON
\* object ("key": value, with its comma).  A Python value is a record with
\* its type and its items: the tokens of a str, the entries of a list.

Tok(k, v, list) == [k |-> k, v |-> v, list |-> list]
LBrace == Tok("{", "", FALSE)
RBrace == Tok("}", "", FALSE)
Prose(v) == Tok("text", v, FALSE)       \* characters other than braces
Member(k, v) == Tok(k, v, FALSE)        \* "k": "v"
ListMember(k, v) == Tok(k, v, TRUE)     \* "k": ["v", ...]
IsMember(tok) == tok.k \notin {"{", "}", "text"}

Str(items) == [type |-> "str", items |-> items]
List(items) == [type |-> "list", items |-> items]
PyNone == [type |-> "NoneType", items |-> <<>>]
Literal(v) == Str(<<Prose(v)>>)         \* a str constant of the source

EmptyDict == [k \in {} |-> PyNone]

\* What a block of code does: it returns val, or raises exc
Ok(val) == [exc |-> "", val |-> val]
Raise(exc) == [exc |-> exc, val |-> EmptyDict]

\* Mutant: the handler catches json.JSONDecodeError only
IsExceptionDecodeOnly(exc) == exc = "JSONDecodeError"

\* `except Exception as e` (lines 98, 145, 306): every exception raised here
\* is a subclass of Exception
IsException(exc) == exc # ""

\* The tokens the API can put in the text of its answer
Alphabet ==
    {LBrace, RBrace, Prose("Here is the analysis"),
     Member("summary", "A lease"), ListMember("key_points", "Rent is due"),
     ListMember("warnings", "Late fee"), Member("answer", "1200"),
     Member("source_section", "Clause 2"), Member("confidence", "high")}

Responses == UNION {[1..n -> Alphabet] : n \in 0..MaxResponseLen}

\* What requests.post and the extraction of lines 291-295 can meet: an
\* exception of requests (a connection error, a timeout after 30 s), a
\* status other than 200, a body without candidates, a candidate without
\* content/parts, a part without 'text' (KeyError), a 'text' that is not a
\* str (JSON null), or a text.
FailureKinds == {"ConnectionError", "Timeout", "status", "no_candidates",
                 "bad_shape", "KeyError"}
Outcome(kind, text) == [kind |-> kind, text |-> text]
NoOutcome == Outcome("none", <<>>)      \* no API call was made
Outcomes ==
    {Outcome(k, <<>>) : k \in FailureKinds \cup {"null_text"}}
    \cup {Outcome("ok", text) : text \in Responses}

\* _call_gemini_api lines 289-304, inside the try block
PostAndExtract(outcome) ==
    CASE outcome.kind \in {"ConnectionError", "Timeout", "KeyError"} ->
            Raise(outcome.kind)
      [] outcome.kind = "status" -> Ok(Literal("Error: API call failed"))
      [] outcome.kind = "no_candidates" ->
            Ok(Literal("Error: No response generated"))
      [] outcome.kind = "bad_shape" ->
            Ok(Literal("Error: Unexpected response format"))
      [] outcome.kind = "null_text" -> Ok(PyNone)
      [] OTHER -> Ok(Str(outcome.text))

\* _call_gemini_api lines 274-308: an exception becomes the returned string
CallGeminiApi(outcome) ==
    LET r == PostAndExtract(outcome) IN
    IF IsException(r.exc) THEN Ok(Str(<<Prose("Error: "), Prose(r.exc)>>))
    ELSE r

\* re.search(r'\{.*\}', response_text, re.DOTALL).group(): from the first
\* opening brace to the last closing brace after it; <<>> when no match
ReSearch(items) ==
    LET opens == {i \in 1..Len(items) : items[i] = LBrace} IN
    IF opens = {} THEN <<>>
    ELSE LET i == SetMin(opens)
             closes == {j \in (i + 1)..Len(items) : items[j] = RBrace}
         IN IF closes = {} THEN <<>>
            ELSE SubSeq(items, i, SetMax(closes))

MemberValue(tok) == IF tok.list THEN List(<<Prose(tok.v)>>) ELSE Literal(tok.v)

\* json.loads(json_str): an object when every token between the outer braces
\* is a member (a later member replaces an earlier one with its key);
\* json.JSONDecodeError otherwise
JsonLoads(span) ==
    LET inner == SubSeq(span, 2, Len(span) - 1)
        at(key) == SetMax({k \in 1..Len(inner) : inner[k].k = key})
    IN IF \A k \in 1..Len(inner) : IsMember(inner[k])
       THEN Ok([key \in {inner[k].k : k \in 1..Len(inner)} |->
                   MemberValue(inner[at(key)])])
       ELSE Raise("JSONDecodeError")

\* Mutant: only the summary is checked
RequiredFieldsSummaryOnly == {"summary"}

\* line 224: required_fields
RequiredFields == {"summary", "key_points", "warnings"}

\* lines 225-227: for field in required_fields: result[field] = []
FillRequired(d) ==
    [x \in (DOMAIN d) \cup RequiredFields |->
        IF x \in DOMAIN d THEN d[x] ELSE List(<<>>)]

\* line 313: response_text[:500] + "..." if len(response_text) > 500
Truncate(items) ==
    IF Len(items) > SummaryLimit
    THEN SubSeq(items, 1, SummaryLimit) \o <<Prose("...")>>
    ELSE items

\* _fallback_parse_analysis lines 312-323
FallbackParseAnalysis(items) ==
    [summary |-> Str(Truncate(items)),
     key_points |-> List(<<Prose("Document analysis completed"),
                           Prose("Please review the full response above"),
                           Prose("Contact support if you need clarification")
                         >>),
     warnings |-> List(<<Prose("Analysis format may not be optimal"),
                         Prose("Please verify important details independently")
                       >>)]

\* _parse_analysis_response lines 216-236; re.search raises TypeError on a
\* response that is not a str, and only json.JSONDecodeError is caught here
ParseAnalysisResponse(response) ==
    IF response.type # "str" THEN Raise("TypeError")
    ELSE LET span == ReSearch(response.items) IN
         IF span = <<>> THEN Ok(FallbackParseAnalysis(response.items))
         ELSE LET r == JsonLoads(span) IN
              IF r.exc = "JSONDecodeError"
              THEN Ok(FallbackParseAnalysis(response.items))
              ELSE Ok(FillRequired(r.val))

\* lines 258-262 and 266-270: the fallback dict of _parse_qa_response
QaFallback(items, confidence) ==
    [answer |-> Str(items), source_section |-> PyNone,
     confidence |-> Literal(confidence)]

\* lines 248-253: the keys a decoded object lacks
QaDefaults(d, items) ==
    [x \in (DOMAIN d) \cup {"answer", "source_section", "confidence"} |->
        IF x \in DOMAIN d THEN d[x]
        ELSE QaFallback(items, "medium")[x]]

\* _parse_qa_response lines 240-270
ParseQaResponse(response) ==
    IF response.type # "str" THEN Raise("TypeError")
    ELSE LET span == ReSearch(response.items) IN
         IF span = <<>> THEN Ok(QaFallback(response.items, "medium"))
         ELSE LET r == JsonLoads(span) IN
              IF r.exc = "JSONDecodeError"
              THEN Ok(QaFallback(response.items, "low"))
              ELSE Ok(QaDefaults(r.val, response.items))

\* The arguments the routes pass: the extracted text of an upload, and the
\* question of the client; a question with a double quote in it breaks the
\* JSON the mock answer is written in
DocTexts == {u[1] : u \in Uploads}
Questions == {"What is the rent?", "What does 'term\" mean?"}
JsonSafe(question) == question = "What is the rent?"
CharCount(text) == IF text = "lease" THEN 5 ELSE 3      \* len(text)

\* lines 72-90: the mock analysis, a JSON object filled with len(text)
MockAnalysisText(text) ==
    <<LBrace, Member("summary", ToString(CharCount(text))),
      ListMember("key_points", "Document contains specific terms"),
      ListMember("warnings", "Review all financial obligations"), RBrace>>

\* lines 131-137: the mock answer, a JSON object with the question pasted
\* between double quotes
MockAnswerText(text, question) ==
    <<LBrace,
      IF JsonSafe(question) THEN Member("answer", question)
      ELSE Prose(question),
      Member("source_section", "Document Analysis (Demo Mode)"),
      Member("confidence", "medium"), RBrace>>

\* lines 100-105: the dict returned by the except clause
AnalysisFailed(exc) ==
    [summary |-> Literal("Analysis failed due to technical error"),
     key_points |-> List(<<Prose("Unable to analyze document at this time")>>),
     warnings |-> List(<<Prose("Please try again later or contact support")>>),
     error |-> Literal(exc)]

\* lines 147-152: the dict returned by the except clause
AnswerFailed(exc) ==
    [answer |-> Literal("Unable to answer question due to technical error"),
     source_section |-> PyNone,
     confidence |-> Literal("low"),
     error |-> Literal(exc)]

\* analyze_document lines 60-105.  The prompt (text[:8000] and the filename
\* in a template) goes to the API, whose answer is the outcome.
AnalyzeDocument(use_api, text, filename, outcome) ==
    LET analysis_text == IF use_api THEN CallGeminiApi(outcome)
                         ELSE Ok(Str(MockAnalysisText(text)))
        body == IF analysis_text.exc # "" THEN analysis_text
                ELSE ParseAnalysisResponse(analysis_text.val)
    IN IF IsException(body.exc) THEN Ok(AnalysisFailed(body.exc)) ELSE body

\* answer_question lines 119-152
AnswerQuestion(use_api, text, question, outcome) ==
    LET answer_text == IF use_api THEN CallGeminiApi(outcome)
                       ELSE Ok(Str(MockAnswerText(text, question)))
        body == IF answer_text.exc # "" THEN answer_text
                ELSE ParseQaResponse(answer_text.val)
    IN IF IsException(body.exc) THEN Ok(AnswerFailed(body.exc)) ELSE body

\* Config.GEMINI_API_KEY = os.getenv('GEMINI_API_KEY'): unset, or a key
NoKey == "None"
Keys == {NoKey, "key"}

\* _init_ai_clients lines 34-40: if self.gemini_api_key
InitAiClients(key) == key # NoKey

\* The locals of a route and of the analyzer call it makes: name says where
\* the thread is ("analyze"/"answer": inside that call; "analyzed": the
\* upload route holds analysis_result; "got": the question route holds the
\* document get_document returned)
Req(name, text, filename, question) ==
    [name |-> name, text |-> text, filename |-> filename,
     question |-> question]
NoRequest == Req("none", "", "", "")

\* What an analyzer call returned (result) or raised (exc), for which
\* arguments (request) and which answer of the API (outcome)
Reply(name, req, outcome, r) ==
    [op |-> name, request |-> req, outcome |-> outcome, exc |-> r.exc,
     result |-> r.val]
NoReply == Reply("none", NoRequest, NoOutcome, Ok(EmptyDict))

\* ---------------------------------------------------------- PDFProcessor
\* (src/backend/services/pdf_processor.py)

\* A str of the extractor is the sequence of its characters; str.strip()
\* drops the blanks and line breaks at both ends.

\* f"{n}" of a non-negative int
Digit(d) == <<"0", "1", "2", "3", "4", "5", "6", "7", "8", "9">>[d + 1]

RECURSIVE Decimal(_)
Decimal(n) ==
    IF n < 10 THEN <<Digit(n)>>
    ELSE Decimal(n \div 10) \o <<Digit(n % 10)>>

RECURSIVE FirstInk(_, _)
FirstInk(s, i) ==
    IF i > Len(s) \/ s[i] \notin {" ", "\n"} THEN i ELSE FirstInk(s, i + 1)

RECURSIVE LastInk(_, _)
LastInk(s, i) ==
    IF i < 1 \/ s[i] \notin {" ", "\n"} THEN i ELSE LastInk(s, i - 1)

\* str.strip()
Strip(s) ==
    LET a == FirstInk(s, 1)
        b == LastInk(s, Len(s))
    IN  IF a > b THEN <<>> ELSE SubSeq(s, a, b)

\* "\n".join(extracted_text)
RECURSIVE Join(_)
Join(blocks) ==
    IF blocks = <<>> THEN <<>>
    ELSE IF Len(blocks) = 1 THEN blocks[1]
    ELSE blocks[1] \o <<"\n">> \o Join(Tail(blocks))

\* What page.extract_text() does on one page: it raises, or returns a str
\* (pdfplumber and PyPDF2 return an empty str for a page without text)
PageRaises == [raises |-> TRUE, text |-> <<>>]
PageText(text) == [raises |-> FALSE, text |-> text]
PageOutcomes == {PageRaises, PageText(<<>>), PageText(<<" ">>),
                 PageText(<<"x">>)}

\* What one library makes of the bytes: open_error is the message of the
\* exception its open raises ("" when it opens); every page behaves as
\* fill, except page number odd (0-based), which behaves as other.
View(open_error, total_pages, fill, odd, other) ==
    [open_error |-> open_error, total_pages |-> total_pages, fill |-> fill,
     odd |-> odd, other |-> other]

Unreadable(open_error) == View(open_error, 0, PageRaises, 0, PageRaises)

\* io.BytesIO(b"") handed to either library
EmptyBytes ==
    [pdfplumber |-> Unreadable("No /Root object! - Is this really a PDF?"),
     pypdf2 |-> Unreadable("Cannot read an empty file")]

\* Mutant: the f-string without the page marker
PageBlockBare(page_num, text) == text \o <<"\n">>

\* f"--- Page {page_num + 1} ---\n{text}\n"
PageBlock(page_num, text) ==
    <<"-", "-", "-", " ", "P", "a", "g", "e", " ">> \o Decimal(page_num + 1)
       \o <<" ", "-", "-", "-", "\n">> \o text \o <<"\n">>

\* Mutant: no page cap
PagesToProcessAll(total_pages) == total_pages

\* min(total_pages, self.max_pages)
PagesToProcess(total_pages) ==
    IF total_pages < MaxPages THEN total_pages ELSE MaxPages

\* page = pdf.pages[page_num]; text = page.extract_text()
ExtractPage(view, page_num) ==
    IF page_num = view.odd THEN view.other ELSE view.fill

\* for page_num in range(pages_to_process): the blocks appended from
\* page_num on; a page that raises is skipped (continue)
RECURSIVE ExtractedText(_, _, _)
ExtractedText(view, page_num, pages_to_process) ==
    IF page_num >= pages_to_process THEN <<>>
    ELSE LET page == ExtractPage(view, page_num)
         IN  (IF ~page.raises /\ page.text # <<>>
              THEN <<PageBlock(page_num, page.text)>> ELSE <<>>)
             \o ExtractedText(view, page_num + 1, pages_to_process)

\* full_text of an opened document
FullText(view) ==
    Join(ExtractedText(view, 0, PagesToProcess(view.total_pages)))

\* An error message: a constant text, then str(e) where the source appends it
Reason(text, detail) == [text |-> text, detail |-> detail]
NoReason == Reason("None", "")

\* The (success, text, error) tuples
Extraction(success, text, error) ==
    [success |-> success, text |-> text, error |-> error]

\* A FileStorage: the bytes and where the next read starts
File(pdf, tell) == [pdf |-> pdf, tell |-> tell]

\* file.seek(0)
Seek0(file) == File(file.pdf, "start")

\* file.read(): the rest of the bytes, and the position is left at the end
Read(file) ==
    [bytes |-> IF file.tell = "start" THEN file.pdf ELSE EmptyBytes,
     file |-> File(file.pdf, "end")]

\* The body of a strategy on what one library makes of the bytes read
Strategy(view, name) ==
    IF view.open_error # ""
    THEN Extraction(FALSE, <<>>, Reason(name, view.open_error))
    ELSE LET full_text == FullText(view)
         IN  IF Len(Strip(full_text)) < MinTextLength
             THEN Extraction(FALSE, <<>>,
                             Reason("No readable text found in PDF", ""))
             ELSE Extraction(TRUE, full_text, NoReason)

\* _extract_with_pdfplumber
ExtractWithPdfplumber(file) ==
    LET data == Read(file)
    IN  [result |-> Strategy(data.bytes.pdfplumber, "pdfplumber error: "),
         file |-> data.file]

\* _extract_with_pypdf2
ExtractWithPypdf2(file) ==
    LET data == Read(file)
    IN  [result |-> Strategy(data.bytes.pypdf2, "PyPDF2 error: "),
         file |-> data.file]

\* One strategy call of extract_text: which, and where its read started
StrategyCall(name, file) == [name |-> name, tell |-> file.tell]

ImageOnly == "Document appears to be empty or contains only images"

\* Mutant: no rewind before the fallback
ExtractTextNoRewind(file) ==
    LET a == ExtractWithPdfplumber(Seek0(file))
        b == ExtractWithPypdf2(a.file)
    IN  IF a.result.success
           /\ Len(Strip(a.result.text)) >= MinTextLength
        THEN [result |-> Extraction(TRUE, a.result.text, NoReason),
              calls |-> <<StrategyCall("pdfplumber", Seek0(file))>>,
              file |-> a.file]
        ELSE [result |->
                 IF b.result.success
                    /\ Len(Strip(b.result.text)) >= MinTextLength
                 THEN Extraction(TRUE, b.result.text, NoReason)
                 ELSE Extraction(FALSE, <<>>, Reason(ImageOnly, "")),
              calls |-> <<StrategyCall("pdfplumber", Seek0(file)),
                          StrategyCall("PyPDF2", a.file)>>,
              file |-> b.file]

\* Mutant: a failure is reported without a message
ExtractTextSilent(file) ==
    LET a == ExtractWithPdfplumber(Seek0(file))
        b == ExtractWithPypdf2(Seek0(a.file))
    IN  IF a.result.success
           /\ Len(Strip(a.result.text)) >= MinTextLength
        THEN [result |-> Extraction(TRUE, a.result.text, NoReason),
              calls |-> <<StrategyCall("pdfplumber", Seek0(file))>>,
              file |-> a.file]
        ELSE [result |->
                 IF b.result.success
                    /\ Len(Strip(b.result.text)) >= MinTextLength
                 THEN Extraction(TRUE, b.result.text, NoReason)
                 ELSE Extraction(FALSE, <<>>, NoReason),
              calls |-> <<StrategyCall("pdfplumber", Seek0(file)),
                          StrategyCall("PyPDF2", Seek0(a.file))>>,
              file |-> b.file]

\* extract_text lines 31-54: the tuple returned, the strategy calls made and
\* the file as it is left.  file.seek and the strategies, which catch their
\* own exceptions, do not raise, so the handler of line 56 is not entered.
ExtractText(file) ==
    LET a == ExtractWithPdfplumber(Seek0(file))
        b == ExtractWithPypdf2(Seek0(a.file))
    IN  IF a.result.success
           /\ Len(Strip(a.result.text)) >= MinTextLength
        THEN [result |-> Extraction(TRUE, a.result.text, NoReason),
              calls |-> <<StrategyCall("pdfplumber", Seek0(file))>>,
              file |-> a.file]
        ELSE [result |->
                 IF b.result.success
                    /\ Len(Strip(b.result.text)) >= MinTextLength
                 THEN Extraction(TRUE, b.result.text, NoReason)
                 ELSE IF Len(Strip(b.result.text)) < MinTextLength
                 THEN Extraction(FALSE, <<>>, Reason(ImageOnly, ""))
                 ELSE Extraction(FALSE, <<>>,
                         IF b.result.error # NoReason THEN b.result.error
                         ELSE Reason("Failed to extract text from PDF", "")),
              calls |-> <<StrategyCall("pdfplumber", Seek0(file)),
                          StrategyCall("PyPDF2", Seek0(a.file))>>,
              file |-> b.file]

\* What extract_text_from_bytes does: it returns a str or raises
Returned(text) == [exc |-> "", text |-> text, message |-> NoReason]
Raised(exc, message) == [exc |-> exc, text |-> <<>>, message |-> message]

\* One try block of extract_text_from_bytes (lines 171-195, 198-222): the
\* text it returns, or <<>> when it falls through or its handler logs
TryLibrary(view) ==
    IF view.open_error # "" THEN <<>>
    ELSE IF Len(Strip(FullText(view))) >= MinTextLength
    THEN <<FullText(view)>> ELSE <<>>

\* Mutant: no fallback to PyPDF2
ExtractTextFromBytesPlumberOnly(pdf_bytes) ==
    LET a == TryLibrary(pdf_bytes.pdfplumber)
    IN  IF a # <<>> THEN Returned(a[1])
        ELSE Raised("Exception",
                    Reason("Failed to extract text from PDF: ", ImageOnly))

\* extract_text_from_bytes lines 169-229
ExtractTextFromBytes(pdf_bytes) ==
    LET a == TryLibrary(pdf_bytes.pdfplumber)
        b == TryLibrary(pdf_bytes.pypdf2)
    IN  IF a # <<>> THEN Returned(a[1])
        ELSE IF b # <<>> THEN Returned(b[1])
        ELSE Raised("Exception",
                    Reason("Failed to extract text from PDF: ", ImageOnly))

\* The documents uploaded: how many pages, and what each library makes of
\* them
Views(total_pages) ==
    {Unreadable("file has not been decrypted")}
       \cup {View("", total_pages, fill, OddPage, other) :
                fill \in PageOutcomes, other \in PageOutcomes}
Pdfs ==
    UNION {[pdfplumber : Views(n), pypdf2 : Views(n)] :
              n \in (0..MaxFew) \cup ((MaxPages - 1)..(MaxPages + MaxOver))}

NoFile == File(EmptyBytes, "start")
NoExtraction == Extraction(FALSE, <<>>, Reason("", ""))
NotCalled == Raised("none", NoReason)

\* ------------------------------------------------------------ RateLimiter
\* (src/backend/utils/security.py)

\* request.remote_addr of the clients
Identifiers == {"10.0.0.1", "10.0.0.2"}

\* The arguments the rate_limit decorators of the two routes pass
Limit(max_requests, window_seconds) ==
    [max_requests |-> max_requests, window_seconds |-> window_seconds]
Limits == {Limit(MaxAnalyze, Window), Limit(MaxQuestion, Window)}

\* The locals of one is_allowed call, where it is, and what the call the
\* thread made last returned
Frame(at, identifier, limit, current_time, kept, returned) ==
    [pc |-> at, identifier |-> identifier, limit |-> limit,
     current_time |-> current_time, kept |-> kept, returned |-> returned]
NoFrame == Frame("idle", "", Limit(0, 0), 0, <<>>, "none")

\* [req_time for req_time in ... if current_time - req_time < window_seconds]
RECURSIVE Recent(_, _, _)
Recent(times, current_time, window_seconds) ==
    IF times = <<>> THEN <<>>
    ELSE (IF current_time - Head(times) < window_seconds
          THEN <<Head(times)>> ELSE <<>>)
         \o Recent(Tail(times), current_time, window_seconds)

\* An id is known only to the thread that created it until that thread has
\* made its next call (the routes hand document_id to the client after
\* update_analysis); everybody can name every other issued id, and an id
\* that was never issued.
Unpublished(u) ==
    (IF op[u].name = "store" THEN {op[u].id} ELSE {})
    \cup (IF prev[u] # <<>> /\ prev[u][1].op = "store"
          THEN {prev[u][1].id} ELSE {})

Known(t) ==
    {BogusId} \cup
    {i \in 1..(nextId - 1) : \A u \in Threads \ {t} : i \notin Unpublished(u)}

TypeOK ==
    /\ now \in 0..MaxTime
    /\ session_timeout \in 1..MaxTimeout
    /\ DOMAIN documents \subseteq Ids
    /\ lock \in Procs \cup {NoThread}
    /\ nextId \in Ids \cup {Cardinality(Ids) + 1}
    /\ heap \in [Objs -> {"analysis", "tampered"}]
    /\ pc \in [Procs -> {"idle", "waiting", "locked", "raised", "sleeping",
                         "dead", "engine"}]
    /\ delay \in {0, RetryBackoff, SweepInterval}
    /\ gemini_api_key \in Keys
    /\ use_gemini_api \in BOOLEAN
    /\ \A t \in Threads :
          request[t].name \in {"none", "analyze", "analyzed", "got", "answer"}
    /\ reply.op \in {"none", "analyze", "answer"}
    /\ upload.tell \in {"start", "end"}
    /\ extracted.success \in BOOLEAN
    /\ Len(calls) \in 0..2
    /\ from_bytes.exc \in {"none", "", "Exception"}
    /\ DOMAIN requests \subseteq Identifiers
    /\ blocked_ips \subseteq Identifiers
    /\ \A t \in Threads :
          /\ frame[t].pc \in {"idle", "clean", "assign", "check", "append"}
          /\ frame[t].returned \in {"none", "True", "False"}
    /\ \A i \in 1..Len(admitted) : admitted[i].identifier \in Identifiers

\* document_storage = DocumentStorage()
StoreInit ==
    /\ now = 0
    /\ session_timeout \in 1..MaxTimeout
    /\ documents = <<>>
    /\ lock = NoThread
    /\ nextId = 1
    /\ heap = [o \in Objs |-> "analysis"]
    /\ pc = [p \in Procs |-> "idle"]
    /\ op = [p \in Procs |-> NoCall]
    /\ prev = [p \in Procs |-> <<>>]
    /\ last = NoReturn
    /\ delay = 0

\* ai_analyzer = AIAnalyzer(), with the key the environment holds
EngineInit(key) ==
    /\ gemini_api_key = key
    /\ use_gemini_api = InitAiClients(key)
    /\ request = [t \in Threads |-> NoRequest]
    /\ reply = NoReply

\* pdf_processor = PDFProcessor(), and the file uploaded
ExtractorInit(f) ==
    /\ upload = f
    /\ extracted = NoExtraction
    /\ calls = <<>>
    /\ from_bytes = NotCalled

\* rate_limiter = RateLimiter()
LimiterInit ==
    /\ requests = <<>>
    /\ blocked_ips = {}
    /\ frame = [t \in Threads |-> NoFrame]
    /\ admitted = <<>>

\* No upload yet
FrontInit == ExtractorInit(NoFile) /\ LimiterInit

\* The services as app.py imports them, with or without GEMINI_API_KEY
KeyedInit == StoreInit /\ FrontInit /\ \E key \in Keys : EngineInit(key)

\* The extractor with an upload in hand
ExtractInit ==
    /\ StoreInit
    /\ EngineInit(NoKey)
    /\ LimiterInit
    /\ \E pdf \in Pdfs : \E tell \in {"start", "end"} :
          ExtractorInit(File(pdf, tell))

\* The services as app.py imports them, GEMINI_API_KEY not set
Init == StoreInit /\ EngineInit(NoKey) /\ FrontInit

\* ------------------------------------------------------------------ clock

Tick ==
    /\ now < MaxTime
    /\ now' = now + 1
    /\ last' = NoReturn
    /\ UNCHANGED <<session_timeout, documents, lock, nextId, heap, pc, op,
                   prev, delay, engine, front>>

\* ------------------------------------------------------------ self._lock

\* `with self._lock:` entered by a request thread: at once by get_document,
\* update_analysis, delete_document and get_stats (pc idle), after lines
\* 33-34 by store_document (pc waiting)
Acquire(t) ==
    /\ pc[t] \in {"idle", "waiting"}
    /\ LockFree
    /\ lock' = t
    /\ pc' = [pc EXCEPT ![t] = "locked"]
    /\ last' = NoReturn
    /\ UNCHANGED <<now, session_timeout, documents, nextId, heap, op, prev,
                   delay, engine, front>>

\* -------------------------------------------------------- store_document

\* lines 33-34: the id and expires_at are computed before the lock is taken
BeginStore(t, text, filename) ==
    /\ pc[t] = "idle"
    /\ nextId \in Ids
    /\ op' = [op EXCEPT ![t] = Call("store", Uuid4(nextId), text, filename,
                  ExpiresAt(now, session_timeout), now)]
    /\ nextId' = nextId + 1
    /\ pc' = [pc EXCEPT ![t] = "waiting"]
    /\ last' = NoReturn
    /\ UNCHANGED <<now, session_timeout, documents, lock, heap, prev, delay,
                   engine, front>>

\* Mutant: store_document returns without releasing the lock
DoStoreKeepsLock(t) ==
    /\ pc[t] = "locked"
    /\ op[t].name = "store"
    /\ documents' = StoreDocument(documents, op[t].id,
          NewDocument(op[t].text, op[t].filename, now, op[t].expires_at))
    /\ pc' = [pc EXCEPT ![t] = "idle"]
    /\ op' = [op EXCEPT ![t] = NoCall]
    /\ last' = Return(t, "store", op[t].id, IntValue(op[t].id), NoObj, FALSE,
                      After(t, op[t].id))
    /\ prev' = [prev EXCEPT ![t] = Stored(op[t].id, op[t].text,
                  op[t].filename, op[t].current_time)]
    /\ UNCHANGED <<now, session_timeout, nextId, heap, delay, lock, engine,
                   front>>

\* lines 37-45: created_at is read inside the lock
DoStore(t) ==
    /\ pc[t] = "locked"
    /\ op[t].name = "store"
    /\ documents' = StoreDocument(documents, op[t].id,
          NewDocument(op[t].text, op[t].filename, now, op[t].expires_at))
    /\ lock' = NoThread
    /\ pc' = [pc EXCEPT ![t] = "idle"]
    /\ op' = [op EXCEPT ![t] = NoCall]
    /\ last' = Return(t, "store", op[t].id, IntValue(op[t].id), NoObj, FALSE,
                      After(t, op[t].id))
    /\ prev' = [prev EXCEPT ![t] = Stored(op[t].id, op[t].text,
                  op[t].filename, op[t].current_time)]
    /\ UNCHANGED <<now, session_timeout, nextId, heap, delay, engine, front>>

\* ---------------------------------- get, update_analysis, delete, get_stats
\* The whole body of these methods is the critical section; the method and
\* its arguments are drawn when it runs (nothing reads them before).

\* get_document lines 59-69: what the call does to the store and returns
RunGet(t, id) ==
    LET r == GetDocument(documents, id, now) IN
    /\ pc[t] = "locked"
    /\ op[t].name = "none"
    /\ documents' = r.docs
    /\ lock' = NoThread
    /\ pc' = [pc EXCEPT ![t] = "idle"]
    /\ last' = Return(t, "get", id, DocValue(r.val),
                      IF r.val = <<>> THEN NoObj
                      ELSE r.val[1].analysis_result,
                      r.docs # documents, After(t, id))
    /\ prev' = [prev EXCEPT ![t] =
                  IF r.docs # documents THEN Lazy(id) ELSE <<>>]
    /\ UNCHANGED <<now, session_timeout, nextId, heap, op, delay, front>>

\* get_document called by any caller
DoGet(t, id) == RunGet(t, id) /\ UNCHANGED engine

\* update_analysis lines 84-93; the caller still holds analysis_result
DoUpdate(t, id, obj) ==
    LET r == UpdateAnalysis(documents, id, obj, now) IN
    /\ pc[t] = "locked"
    /\ op[t].name = "none"
    /\ documents' = r.docs
    /\ lock' = NoThread
    /\ pc' = [pc EXCEPT ![t] = "idle"]
    /\ last' = Return(t, "update", id, BoolValue(r.val), obj,
                      ~r.val /\ r.docs # documents, After(t, id))
    /\ prev' = [prev EXCEPT ![t] = <<>>]
    /\ UNCHANGED <<now, session_timeout, nextId, heap, op, delay, engine,
                   front>>

\* delete_document lines 107-110
DoDelete(t, id) ==
    LET r == DeleteDocument(documents, id) IN
    /\ pc[t] = "locked"
    /\ op[t].name = "none"
    /\ documents' = r.docs
    /\ lock' = NoThread
    /\ pc' = [pc EXCEPT ![t] = "idle"]
    /\ last' = Return(t, "delete", id, BoolValue(r.val), NoObj, FALSE,
                      After(t, id))
    /\ prev' = [prev EXCEPT ![t] = <<>>]
    /\ UNCHANGED <<now, session_timeout, nextId, heap, op, delay, engine,
                   front>>

\* get_stats lines 142-152
DoStats(t) ==
    /\ pc[t] = "locked"
    /\ op[t].name = "none"
    /\ lock' = NoThread
    /\ pc' = [pc EXCEPT ![t] = "idle"]
    /\ last' = Return(t, "stats", BogusId, StatsValue(GetStats(documents)),
                      NoObj, FALSE, After(t, BogusId))
    /\ prev' = [prev EXCEPT ![t] = <<>>]
    /\ UNCHANGED <<now, session_timeout, documents, nextId, heap, op, delay,
                   engine, front>>

\* The caller of the call that has just returned changes the content of the
\* result dict it holds: the analysis_result it passed to update_analysis,
\* or the one inside the document get_document returned.
MutateResult(t) ==
    /\ last.proc = t
    /\ last.obj # NoObj
    /\ heap[last.obj] = "analysis"
    /\ heap' = [heap EXCEPT ![last.obj] = "tampered"]
    /\ last' = NoReturn
    /\ UNCHANGED <<now, session_timeout, documents, lock, nextId, pc, op,
                   prev, delay, engine, front>>

\* --------------------------------------------------------- cleanup_worker

\* line 160 calling cleanup_expired, lines 120-121: current_time is read
\* before the lock is taken
BeginCleanup ==
    /\ pc[Worker] = "idle"
    /\ op' = [op EXCEPT ![Worker] = Call("sweep", BogusId, "", "", 0, now)]
    /\ pc' = [pc EXCEPT ![Worker] = "waiting"]
    /\ last' = NoReturn
    /\ UNCHANGED <<now, session_timeout, documents, lock, nextId, heap, prev,
                   delay, engine, front>>

\* line 123: with self._lock
EnterCleanup ==
    /\ pc[Worker] = "waiting"
    /\ LockFree
    /\ lock' = Worker
    /\ pc' = [pc EXCEPT ![Worker] = "locked"]
    /\ last' = NoReturn
    /\ UNCHANGED <<now, session_timeout, documents, nextId, heap, op, prev,
                   delay, engine, front>>

\* lines 124-131, then lines 161-163: the worker sleeps 300 s
DoCleanup ==
    LET r == CleanupExpired(documents, op[Worker].current_time) IN
    /\ pc[Worker] = "locked"
    /\ documents' = r.docs
    /\ lock' = NoThread
    /\ pc' = [pc EXCEPT ![Worker] = "sleeping"]
    /\ op' = [op EXCEPT ![Worker] = NoCall]
    /\ delay' = SweepInterval
    /\ last' = Return(Worker, "sweep", BogusId, IntValue(r.val), NoObj,
                      r.val > 0, "")
    /\ UNCHANGED <<now, session_timeout, nextId, heap, prev, engine, front>>

\* An exception is raised inside the try block (lines 159-163), before the
\* sweep took the lock.
WorkerRaise ==
    /\ pc[Worker] = "waiting"
    /\ pc' = [pc EXCEPT ![Worker] = "raised"]
    /\ op' = [op EXCEPT ![Worker] = NoCall]
    /\ last' = NoReturn
    /\ UNCHANGED <<now, session_timeout, documents, lock, nextId, heap, prev,
                   delay, engine, front>>

\* Mutant: no except clause; the exception ends the thread
WorkerDies ==
    /\ pc[Worker] = "raised"
    /\ pc' = [pc EXCEPT ![Worker] = "dead"]
    /\ last' = NoReturn
    /\ UNCHANGED <<now, session_timeout, documents, lock, nextId, heap, op,
                   prev, delay, engine, front>>

\* lines 164-166: except Exception: print, time.sleep(60)
WorkerCatch ==
    /\ pc[Worker] = "raised"
    /\ pc' = [pc EXCEPT ![Worker] = "sleeping"]
    /\ delay' = RetryBackoff
    /\ last' = NoReturn
    /\ UNCHANGED <<now, session_timeout, documents, lock, nextId, heap, op,
                   prev, engine, front>>

\* time.sleep returns; line 158: while True
WorkerWake ==
    /\ pc[Worker] = "sleeping"
    /\ pc' = [pc EXCEPT ![Worker] = "idle"]
    /\ delay' = 0
    /\ last' = NoReturn
    /\ UNCHANGED <<now, session_timeout, documents, lock, nextId, heap, op,
                   prev, engine, front>>

\* ------------------------------------------------- analyzer calls, routes

\* analyze_document is called (app.py line 184 in the upload route): lines
\* 60-69 up to the request to the API
BeginAnalyze(t, text, filename) ==
    /\ pc[t] = "idle"
    /\ pc' = [pc EXCEPT ![t] = "engine"]
    /\ request' = [request EXCEPT ![t] = Req("analyze", text, filename, "")]
    /\ reply' = NoReply
    /\ last' = NoReturn
    /\ UNCHANGED <<now, session_timeout, documents, lock, nextId, heap, op,
                   prev, delay, gemini_api_key, use_gemini_api, front>>

\* Mutant: a failed API call switches the analyzer to mock responses
EndAnalyzeFallingBack(t, outcome) ==
    /\ pc[t] = "engine"
    /\ request[t].name = "analyze"
    /\ use_gemini_api <=> outcome # NoOutcome
    /\ reply' = Reply("analyze", request[t], outcome,
                      AnalyzeDocument(use_gemini_api, request[t].text,
                                      request[t].filename, outcome))
    /\ request' = [request EXCEPT ![t].name = "analyzed"]
    /\ pc' = [pc EXCEPT ![t] = "idle"]
    /\ last' = NoReturn
    /\ use_gemini_api' = (use_gemini_api /\ outcome.kind \notin FailureKinds)
    /\ UNCHANGED <<now, session_timeout, documents, lock, nextId, heap, op,
                   prev, delay, gemini_api_key, front>>

\* The API has answered, or the mock text is used; analyze_document parses
\* and returns to the route, which holds analysis_result
EndAnalyze(t, outcome) ==
    /\ pc[t] = "engine"
    /\ request[t].name = "analyze"
    /\ use_gemini_api <=> outcome # NoOutcome
    /\ reply' = Reply("analyze", request[t], outcome,
                      AnalyzeDocument(use_gemini_api, request[t].text,
                                      request[t].filename, outcome))
    /\ request' = [request EXCEPT ![t].name = "analyzed"]
    /\ pc' = [pc EXCEPT ![t] = "idle"]
    /\ last' = NoReturn
    /\ UNCHANGED <<now, session_timeout, documents, lock, nextId, heap, op,
                   prev, delay, gemini_api_key, use_gemini_api, front>>

\* app.py lines 189-206: the upload route returns its response
RouteReturn(t) ==
    /\ pc[t] = "idle"
    /\ request[t].name = "analyzed"
    /\ request' = [request EXCEPT ![t] = NoRequest]
    /\ last' = NoReturn
    /\ UNCHANGED <<now, session_timeout, documents, lock, nextId, heap, pc,
                   op, prev, delay, gemini_api_key, use_gemini_api, reply,
                   front>>

\* app.py lines 272-292: the question route calls get_document and keeps the
\* document; with None it returns 404
QuestionGet(t, id) ==
    LET r == GetDocument(documents, id, now) IN
    /\ RunGet(t, id)
    /\ request' = [request EXCEPT ![t] =
                     IF r.val = <<>> THEN NoRequest
                     ELSE Req("got", r.val[1].text, "", "")]
    /\ UNCHANGED <<gemini_api_key, use_gemini_api, reply>>

\* answer_question is called (app.py line 298): lines 119-128
BeginAnswer(t, text, question) ==
    /\ pc[t] = "idle"
    /\ pc' = [pc EXCEPT ![t] = "engine"]
    /\ request' = [request EXCEPT ![t] = Req("answer", text, "", question)]
    /\ reply' = NoReply
    /\ last' = NoReturn
    /\ UNCHANGED <<now, session_timeout, documents, lock, nextId, heap, op,
                   prev, delay, gemini_api_key, use_gemini_api, front>>

\* answer_question parses and returns; the question route returns
EndAnswer(t, outcome) ==
    /\ pc[t] = "engine"
    /\ request[t].name = "answer"
    /\ use_gemini_api <=> outcome # NoOutcome
    /\ reply' = Reply("answer", request[t], outcome,
                      AnswerQuestion(use_gemini_api, request[t].text,
                                     request[t].question, outcome))
    /\ request' = [request EXCEPT ![t] = NoRequest]
    /\ pc' = [pc EXCEPT ![t] = "idle"]
    /\ last' = NoReturn
    /\ UNCHANGED <<now, session_timeout, documents, lock, nextId, heap, op,
                   prev, delay, gemini_api_key, use_gemini_api, front>>

\* ---------------------------------------------------------- specification

Next ==
    \/ Tick
    \/ \E t \in Threads : \E u \in Uploads : BeginStore(t, u[1], u[2])
    \/ \E t \in Threads : Acquire(t)
    \/ \E t \in Threads : DoStore(t)
    \/ \E t \in Threads : \E id \in Known(t) : DoGet(t, id)
    \/ \E t \in Threads : \E id \in Known(t) : \E obj \in Objs :
          DoUpdate(t, id, obj)
    \/ \E t \in Threads : \E id \in Known(t) : DoDelete(t, id)
    \/ \E t \in Threads : DoStats(t)
    \/ BeginCleanup
    \/ EnterCleanup
    \/ DoCleanup
    \/ WorkerWake

\* The store under concurrent request threads and the periodic sweep
Spec == Init /\ [][Next]_vars

\* The cleanup loop with failing iterations, next to one uploading thread
Uploader == CHOOSE t \in Threads : TRUE

LoopNext ==
    \/ Tick
    \/ \E u \in Uploads : BeginStore(Uploader, u[1], u[2])
    \/ Acquire(Uploader)
    \/ DoStore(Uploader)
    \/ BeginCleanup
    \/ EnterCleanup
    \/ DoCleanup
    \/ WorkerRaise
    \/ WorkerCatch
    \/ WorkerWake

\* The scheduler runs the cleanup thread: the steps it takes on its own
\* (leaving the except clause, returning from time.sleep, calling
\* cleanup_expired again) happen.
FairSpec ==
    /\ Init
    /\ [][LoopNext]_vars
    /\ WF_vars(WorkerCatch)
    /\ WF_vars(WorkerWake)
    /\ WF_vars(BeginCleanup)

\* One caller that stores, attaches results, reads them back and then
\* changes the dicts it holds
AliasNext ==
    \/ \E u \in Uploads : BeginStore(Uploader, u[1], u[2])
    \/ Acquire(Uploader)
    \/ DoStore(Uploader)
    \/ \E id \in Known(Uploader) : DoGet(Uploader, id)
    \/ \E id \in Known(Uploader) : \E obj \in Objs :
          DoUpdate(Uploader, id, obj)
    \/ MutateResult(Uploader)

AliasSpec == Init /\ [][AliasNext]_vars

\* One caller of the analyzer, with or without a key, and every answer the
\* API can give
EngineNext ==
    \/ \E u \in Uploads : BeginAnalyze(Uploader, u[1], u[2])
    \/ \E outcome \in Outcomes \cup {NoOutcome} : EndAnalyze(Uploader, outcome)
    \/ \E text \in DocTexts : \E q \in Questions :
          BeginAnswer(Uploader, text, q)
    \/ \E outcome \in Outcomes \cup {NoOutcome} : EndAnswer(Uploader, outcome)

EngineSpec ==
    /\ KeyedInit
    /\ [][EngineNext]_vars

\* The answers of the API the routes are run against: a failure and a text
FlowOutcomes == {Outcome("Timeout", <<>>), Outcome("ok", <<LBrace, RBrace>>)}

\* Where a request thread is between two routes
AtRouteStart(t) ==
    pc[t] = "idle" /\ request[t].name = "none" /\ ~HasStored(t)

\* Request threads running the upload route (app.py lines 181-206: store,
\* analyze, update_analysis, return) and the question route (lines 272-316:
\* get_document, answer_question, return), next to the periodic sweep.  The
\* clock stands still: who holds the lock does not depend on it.
FlowNext ==
    \/ \E t \in Threads : \E u \in Uploads :
          AtRouteStart(t) /\ BeginStore(t, u[1], u[2])
    \/ \E t \in Threads :
          /\ \/ pc[t] = "waiting"
             \/ AtRouteStart(t)
             \/ request[t].name = "analyzed" /\ HasStored(t)
          /\ Acquire(t)
    \/ \E t \in Threads : DoStore(t)
    \/ \E t \in Threads :
          /\ HasStored(t)
          /\ request[t].name = "none"
          /\ BeginAnalyze(t, prev[t][1].text, prev[t][1].filename)
    \/ \E t \in Threads : \E outcome \in FlowOutcomes \cup {NoOutcome} :
          EndAnalyze(t, outcome)
    \/ \E t \in Threads : \E obj \in Objs :
          /\ HasStored(t)
          /\ request[t].name = "analyzed"
          /\ DoUpdate(t, prev[t][1].id, obj)
    \/ \E t \in Threads : ~HasStored(t) /\ RouteReturn(t)
    \/ \E t \in Threads : \E id \in Known(t) :
          request[t].name = "none" /\ QuestionGet(t, id)
    \/ \E t \in Threads : \E q \in Questions :
          request[t].name = "got" /\ BeginAnswer(t, request[t].text, q)
    \/ \E t \in Threads : \E outcome \in FlowOutcomes \cup {NoOutcome} :
          EndAnswer(t, outcome)
    \/ BeginCleanup
    \/ EnterCleanup
    \/ DoCleanup
    \/ WorkerWake

FlowSpec ==
    /\ KeyedInit
    /\ [][FlowNext]_vars

\* ------------------------------------------------- the store's view of time

\* The spec's reading of expiry: a document is live only while now < expires_at
Live(docs, id, t) == id \in DOMAIN docs /\ t < docs[id].expires_at

AnyId == Ids \cup {BogusId}

\* C1: in every reachable state, a call on a document whose expiry has
\* passed (now >= expires_at) gets the answer it would get were the document
\* absent: get_document returns None, update_analysis returns False,
\* delete_document returns False, and get_stats counts only live documents.
C1_ExpiredBehavesAbsent ==
    [][\A t \in Threads :
        /\ \A id \in Ids :
              (id \in DOMAIN documents /\ now >= documents[id].expires_at)
              => /\ DoGet(t, id) => last'.val.doc = <<>>
                 /\ \A obj \in Objs :
                       DoUpdate(t, id, obj) => last'.val.ok = FALSE
                 /\ DoDelete(t, id) => last'.val.ok = FALSE
        /\ DoStats(t) =>
              last'.val.stats[1].total_documents =
                 Cardinality({i \in DOMAIN documents :
                                 Live(documents, i, now)})
      ]_vars

\* C2: a get_document(id) that runs when now > expires_at returns None and
\* removes the entry, and the get_stats the same caller makes afterwards
\* reports a count that does not include that id.
C2_LazyDeletion ==
    [][\A t \in Threads :
        /\ \A id \in Ids :
              (DoGet(t, id) /\ id \in DOMAIN documents
                 /\ now > documents[id].expires_at)
              => /\ last'.val.doc = <<>>
                 /\ id \notin DOMAIN documents'
                 /\ prev'[t] = Lazy(id)
        /\ (DoStats(t) /\ HasLazy(t))
              => /\ prev[t][1].id \notin DOMAIN documents
                 /\ last'.val.stats[1].total_documents =
                       Cardinality(DOMAIN documents \ {prev[t][1].id})
      ]_vars

\* A get_stats has returned to a caller whose previous call was a
\* get_document that found its entry expired.
C2_Witness == last.op = "stats" /\ last.after = "lazy"

\* C3: the expiry test is inclusive: when now = expires_at, get_document
\* returns None and update_analysis returns False, and cleanup_expired
\* removes every entry with expires_at <= current_time.
C3_InclusiveExpiry ==
    [][/\ \A t \in Threads : \A id \in Ids :
              (id \in DOMAIN documents /\ now = documents[id].expires_at)
              => /\ DoGet(t, id) => last'.val.doc = <<>>
                 /\ \A obj \in Objs :
                       DoUpdate(t, id, obj) => last'.val.ok = FALSE
       /\ DoCleanup =>
              \A i \in DOMAIN documents :
                 documents[i].expires_at <= op[Worker].current_time
                 => i \notin DOMAIN documents'
      ]_vars

\* C4: a get_document that a caller makes right after its own store_document
\* (before session_timeout has elapsed since the call), whatever the other
\* threads and the sweep did in between, returns a document with the text
\* and filename that were stored and analysis_result None.
C4_CreateThenGet ==
    [][\A t \in Threads : \A id \in Ids :
          (/\ DoGet(t, id)
           /\ HasStored(t)
           /\ prev[t][1].id = id
           /\ now - prev[t][1].called_at < session_timeout)
          => /\ last'.val.doc # <<>>
             /\ last'.val.doc[1].text = prev[t][1].text
             /\ last'.val.doc[1].filename = prev[t][1].filename
             /\ last'.val.doc[1].analysis_result = NoObj
      ]_vars

\* A get_document has returned a document to the caller that had just
\* stored it, before it expired.
C4_Witness ==
    /\ last.op = "get"
    /\ last.after = "store"
    /\ last.val.doc # <<>>
    /\ now < last.val.doc[1].expires_at

\* C5: update_analysis(id, result) returns True and attaches result exactly
\* when id is present and live (now < expires_at); otherwise it returns
\* False, creates no entry, attaches nothing and leaves id out of the table.
C5_UpdateExactlyWhenLive ==
    [][\A t \in Threads : \A id \in AnyId : \A obj \in Objs :
          DoUpdate(t, id, obj) =>
             IF Live(documents, id, now)
             THEN /\ last'.val.ok = TRUE
                  /\ documents' =
                        [documents EXCEPT ![id].analysis_result = obj]
             ELSE /\ last'.val.ok = FALSE
                  /\ documents' = Remove(documents, {id})
      ]_vars

\* The table with every analysis_result reference replaced by the content of
\* the dict it points to: what a reader of the table can observe.
DeepTable ==
    [i \in DOMAIN documents |->
        [documents[i] EXCEPT !.analysis_result =
            IF @ = NoObj THEN "None" ELSE heap[@]]]

\* C6: get_document returns a deep copy: a change the caller makes to the
\* analysis result inside the returned document changes nothing a later
\* reader of the table observes.
C6_ReturnedCopyIsDeep ==
    [][\A t \in Threads :
          (MutateResult(t) /\ last.op = "get") => DeepTable' = DeepTable
      ]_vars

\* C7: at most one thread is inside a critical section and it is the thread
\* holding the lock; the table changes only in the step that ends the lock
\* holder's critical section; get_document returns an entry as it stands in
\* the table; and a successful update_analysis leaves the table as it was
\* except for the analysis_result of its id, which is the value it wrote.
C7_MutualExclusion ==
    /\ [](/\ Cardinality({p \in Procs : pc[p] = "locked"}) <= 1
          /\ \A p \in Procs : pc[p] = "locked" <=> lock = p)
    /\ [][/\ documents' # documents =>
                /\ lock # NoThread
                /\ pc[lock] = "locked"
                /\ pc'[lock] # "locked"
                /\ lock' = NoThread
          /\ \A t \in Threads : \A id \in AnyId :
                DoGet(t, id) =>
                   \/ last'.val.doc = <<>>
                   \/ last'.val.doc = <<documents[id]>>
          /\ \A t \in Threads : \A id \in AnyId : \A obj \in Objs :
                (DoUpdate(t, id, obj) /\ last'.val.ok = TRUE) =>
                   documents' = [documents EXCEPT ![id].analysis_result = obj]
         ]_vars

\* An update_analysis has attached its result while another thread was
\* waiting for the lock.
C7_Witness ==
    /\ last.op = "update"
    /\ last.val.ok
    /\ \E p \in Procs \ {last.proc} : pc[p] = "waiting"

\* C8: the ids of store_document calls, in progress or just returned, are
\* pairwise different and an id in progress is not in the table yet; an
\* insertion adds its id and changes no other entry; and every document a
\* caller has just stored is, while in the table, found under the id the
\* call returned with the text that call stored.
C8_DistinctIds ==
    /\ [](/\ \A t, u \in Threads :
                t # u => Unpublished(t) \cap Unpublished(u) = {}
          /\ \A t \in Threads :
                op[t].name = "store" => op[t].id \notin DOMAIN documents
          /\ \A t \in Threads :
                (HasStored(t) /\ prev[t][1].id \in DOMAIN documents)
                => documents[prev[t][1].id].text = prev[t][1].text)
    /\ [][\A t \in Threads :
             DoStore(t) =>
                /\ op[t].id \notin DOMAIN documents
                /\ DOMAIN documents' = DOMAIN documents \cup {op[t].id}
                /\ \A i \in DOMAIN documents : documents'[i] = documents[i]
                /\ documents'[op[t].id].text = op[t].text
         ]_vars

\* Two store_document calls that overlapped have both returned, and both
\* documents are in the table under different ids with different texts.
C8_Witness ==
    /\ last.op = "store"
    /\ \E u \in Threads \ {last.proc} :
          /\ HasStored(u)
          /\ prev[u][1].called_at = prev[last.proc][1].called_at
          /\ prev[u][1].id # last.id
          /\ {prev[u][1].id, last.id} \subseteq DOMAIN documents
          /\ documents[prev[u][1].id].text # documents[last.id].text

\* C9: cleanup_expired removes every entry that is expired (expires_at <=
\* current_time) when it runs and no other, returns the number of entries
\* it removed, and a second sweep at the same clock right after it would
\* remove nothing and return 0.
C9_SweepRemovesAllExpired ==
    [][DoCleanup =>
          LET ct == op[Worker].current_time
              expired == {i \in DOMAIN documents :
                             documents[i].expires_at <= ct}
          IN /\ documents' = Remove(documents, expired)
             /\ last'.val.n = Cardinality(expired)
             /\ CleanupExpired(documents', ct).val = 0
             /\ CleanupExpired(documents', ct).docs = documents'
      ]_vars

\* C10: the cleanup thread never ends; an exception raised in an iteration
\* is caught, the thread then sleeps RetryBackoff seconds, which is less
\* than SweepInterval, and it calls cleanup_expired again.
C10_SweepLoopSurvives ==
    /\ [](pc[Worker] # "dead")
    /\ [][(pc[Worker] = "raised" /\ pc'[Worker] # "raised") =>
             /\ pc'[Worker] = "sleeping"
             /\ delay' = RetryBackoff
             /\ delay' < SweepInterval
         ]_vars
    /\ [](pc[Worker] = "sleeping" => delay \in {RetryBackoff, SweepInterval})
    /\ (pc[Worker] = "raised") ~> (pc[Worker] = "waiting")

\* The worker sleeps the back-off after a failed iteration.
C10_Witness == pc[Worker] = "sleeping" /\ delay = RetryBackoff

\* C11: every document in the table has expires_at = created_at +
\* session_timeout, however long store_document waited for the lock.
C11_ExpiryFromCreation ==
    \A id \in DOMAIN documents :
       documents[id].expires_at = documents[id].created_at + session_timeout

\* C12: an entry leaves the table only in a delete_document of its id, in a
\* cleanup_expired that runs when it is expired, or in a get_document or
\* update_analysis of its id that runs when it is expired; so no step other
\* than its own delete_document removes a live entry, and a get_document of
\* a live entry returns it and leaves it in the table.
C12_RemovedOnlyByDeleteOrExpiry ==
    [][/\ \A id \in (DOMAIN documents) \ (DOMAIN documents') :
             \/ \E t \in Threads : DoDelete(t, id)
             \/ DoCleanup /\ ~Live(documents, id, now)
             \/ /\ ~Live(documents, id, now)
                /\ \E t \in Threads :
                      \/ DoGet(t, id)
                      \/ \E obj \in Objs : DoUpdate(t, id, obj)
       /\ \A id \in DOMAIN documents :
             (Live(documents, id, now) /\ id \notin DOMAIN documents')
             => \E t \in Threads : DoDelete(t, id)
       /\ \A t \in Threads : \A id \in Ids :
             (DoGet(t, id) /\ Live(documents, id, now))
             => /\ last'.val.doc = <<documents[id]>>
                /\ id \in DOMAIN documents'
      ]_vars

\* A get_document has returned a live document after another document was
\* removed from the table by a sweep or a delete.
C12_Witness ==
    /\ last.op = "get"
    /\ last.val.doc # <<>>
    /\ now < last.val.doc[1].expires_at
    /\ pc[Worker] = "sleeping"
    /\ \E i \in 1..(nextId - 1) :
          /\ i # last.id
          /\ i \notin DOMAIN documents
          /\ \A u \in Threads : op[u].id # i

\* ------------------------------------------------ the analyzer's results

\* The text the parser of the call that returned was given: the string
\* _call_gemini_api returned, or the mock text
RawResponse ==
    IF reply.outcome # NoOutcome THEN CallGeminiApi(reply.outcome).val
    ELSE IF reply.op = "analyze"
         THEN Str(MockAnalysisText(reply.request.text))
         ELSE Str(MockAnswerText(reply.request.text, reply.request.question))

\* The {...} span of that text, and whether and to what it decodes
RawSpan == IF RawResponse.type = "str" THEN ReSearch(RawResponse.items)
           ELSE <<>>
Decodes == RawSpan # <<>> /\ JsonLoads(RawSpan).exc = ""
Decoded == JsonLoads(RawSpan).val

\* C13: analyze_document and answer_question never raise, whatever the text,
\* the question and the answer of the API; the dict analyze_document returns
\* has summary, key_points and warnings, and the dict answer_question
\* returns has answer, source_section and confidence.
C13_NeverRaises ==
    /\ reply.op = "analyze" =>
          /\ reply.exc = ""
          /\ {"summary", "key_points", "warnings"} \subseteq
                DOMAIN reply.result
    /\ reply.op = "answer" =>
          /\ reply.exc = ""
          /\ {"answer", "source_section", "confidence"} \subseteq
                DOMAIN reply.result

\* analyze_document has caught an exception and returned the dict of its
\* except clause.
C13_Witness ==
    /\ reply.op = "analyze"
    /\ reply.outcome.kind = "null_text"
    /\ "error" \in DOMAIN reply.result

\* C14: when the API call fails (an exception or a timeout of requests, a
\* status other than 200, no candidates, a candidate without content/parts),
\* analyze_document and answer_question return the degraded result: error is
\* set and the content is the default of the except clause.
C14_OracleFailureIsDegraded ==
    reply.outcome.kind \in FailureKinds =>
       /\ "error" \in DOMAIN reply.result
       /\ reply.op = "analyze" =>
             reply.result.summary =
                Literal("Analysis failed due to technical error")
       /\ reply.op = "answer" =>
             reply.result.answer =
                Literal("Unable to answer question due to technical error")

\* C15: when the text the API returned has no {...} span, the empty text
\* included, analyze_document does not raise and returns a non-empty
\* summary and non-empty key_points and warnings lists.
C15_NoSpanNonEmpty ==
    (reply.op = "analyze" /\ reply.outcome.kind = "ok" /\ RawSpan = <<>>) =>
       /\ reply.exc = ""
       /\ reply.result.summary.type = "str"
       /\ reply.result.summary.items # <<>>
       /\ reply.result.key_points.type = "list"
       /\ reply.result.key_points.items # <<>>
       /\ reply.result.warnings.type = "list"
       /\ reply.result.warnings.items # <<>>

\* C16: when the span decodes to an object without the summary key,
\* analyze_document returns summary = "" (an empty str), and every key of
\* the object keeps its value.
C16_MissingSummaryIsEmptyString ==
    (reply.op = "analyze" /\ Decodes /\ "summary" \notin DOMAIN Decoded) =>
       /\ reply.exc = ""
       /\ "summary" \in DOMAIN reply.result
       /\ reply.result.summary = Str(<<>>)
       /\ \A k \in DOMAIN Decoded :
             k \in DOMAIN reply.result /\ reply.result[k] = Decoded[k]

\* C17: when the span decodes to an object without the warnings key (or
\* without the key_points key), analyze_document does not fail and returns
\* that field as an empty list.
C17_MissingListIsEmptyList ==
    \A field \in {"warnings", "key_points"} :
       (reply.op = "analyze" /\ Decodes /\ field \notin DOMAIN Decoded) =>
          /\ reply.exc = ""
          /\ "error" \notin DOMAIN reply.result
          /\ field \in DOMAIN reply.result
          /\ reply.result[field] = List(<<>>)

\* The API returned a JSON object with a summary and without warnings, and
\* analyze_document has returned.
C17_Witness ==
    /\ reply.op = "analyze"
    /\ reply.outcome.kind = "ok"
    /\ Decodes
    /\ "summary" \in DOMAIN Decoded
    /\ "warnings" \notin DOMAIN Decoded

\* C18: when the text given to _parse_qa_response has no {...} span, or its
\* span does not decode, answer_question returns the text verbatim as
\* answer, source_section None and confidence "low".
C18_FallbackConfidenceLow ==
    (reply.op = "answer" /\ RawResponse.type = "str" /\ ~Decodes) =>
       /\ reply.exc = ""
       /\ reply.result.answer = RawResponse
       /\ reply.result.source_section = PyNone
       /\ reply.result.confidence = Literal("low")

\* C19: use_gemini_api is what the constructor derived from the key, no
\* call of analyze_document or answer_question changes it, failed API calls
\* included, and every call runs in that mode: it asks the API exactly when
\* the flag is set.
C19_ModeFixedAtConstruction ==
    /\ [](use_gemini_api <=> gemini_api_key # NoKey)
    /\ [][use_gemini_api' = use_gemini_api]_vars
    /\ [](reply.op # "none" => (use_gemini_api <=> reply.outcome # NoOutcome))

\* An analyze_document whose API call failed has returned, and the analyzer
\* is still in API mode.
C19_Witness ==
    /\ reply.op = "analyze"
    /\ reply.outcome.kind \in FailureKinds
    /\ use_gemini_api

\* The step that ends the critical section process p is in
FinishCritical(p) ==
    IF p = Worker THEN DoCleanup
    ELSE \/ DoStore(p)
         \/ \E id \in AnyId : QuestionGet(p, id)
         \/ \E id \in AnyId : \E obj \in Objs : DoUpdate(p, id, obj)

\* The step in which process p takes the lock it is waiting for
TakeLock(p) == IF p = Worker THEN EnterCleanup ELSE Acquire(p)

\* C20: while a thread is inside an analyzer call that asks the API (the
\* analyze_document of the upload route, the answer_question of the question
\* route), it does not hold the store's lock; whoever holds the lock then is
\* inside its critical section and can finish it, and with the lock free a
\* waiting thread or the sweep can take it.
C20_NoLockAcrossOracleCall ==
    \A t \in Threads :
       (pc[t] = "engine" /\ use_gemini_api) =>
          /\ lock # t
          /\ \A p \in Procs \ {t} :
                /\ lock = p => pc[p] = "locked" /\ ENABLED FinishCritical(p)
                /\ (pc[p] = "waiting" /\ lock = NoThread) =>
                      ENABLED TakeLock(p)

\* While a thread waits for the API, another process has completed a store
\* operation in the step just taken.
C20_Witness ==
    \E t \in Threads :
       /\ pc[t] = "engine"
       /\ use_gemini_api
       /\ last.op \in {"store", "get", "update", "sweep"}
       /\ last.proc # t

\* C27: an entry that stays in the table keeps its text, filename,
\* created_at and expires_at in every step; its analysis_result changes only
\* in an update_analysis of its id, which leaves every other entry as it
\* was; get_document, delete_document, cleanup_expired and store_document
\* leave every entry that stays as it was.
C27_FieldsImmutable ==
    [][/\ \A i \in (DOMAIN documents) \cap (DOMAIN documents') :
             /\ documents'[i].text = documents[i].text
             /\ documents'[i].filename = documents[i].filename
             /\ documents'[i].created_at = documents[i].created_at
             /\ documents'[i].expires_at = documents[i].expires_at
             /\ documents'[i] # documents[i] =>
                   \E t \in Threads : \E obj \in Objs : DoUpdate(t, i, obj)
       /\ \A t \in Threads : \A id \in AnyId : \A obj \in Objs :
             DoUpdate(t, id, obj) =>
                \A i \in (DOMAIN documents) \ {id} :
                   i \in DOMAIN documents' /\ documents'[i] = documents[i]
       /\ (\/ DoCleanup
           \/ \E t \in Threads : DoStore(t)
           \/ \E t \in Threads : \E id \in AnyId :
                 DoGet(t, id) \/ DoDelete(t, id))
          => \A i \in (DOMAIN documents) \cap (DOMAIN documents') :
                documents'[i] = documents[i]
      ]_vars

\* An update_analysis has attached a result to one of two entries in the
\* table.
C27_Witness ==
    /\ last.op = "update"
    /\ last.val.ok
    /\ Cardinality(DOMAIN documents) = 2

\* C30: without a key, for every document text and every question, a
\* question with a double quote in it included, answer_question returns
\* confidence "medium", source_section "Document Analysis (Demo Mode)", no
\* error key, and an answer that contains the question.
C30_OfflineAnswerEchoes ==
    (reply.op = "answer" /\ ~use_gemini_api) =>
       /\ reply.exc = ""
       /\ "error" \notin DOMAIN reply.result
       /\ reply.result.confidence = Literal("medium")
       /\ reply.result.source_section =
             Literal("Document Analysis (Demo Mode)")
       /\ \E i \in 1..Len(reply.result.answer.items) :
             reply.result.answer.items[i].v = reply.request.question

\* ---------------------------------------------------------- the extractor

\* The analyze route calls extract_text (app.py line 168)
CallExtractText ==
    /\ calls = <<>>
    /\ LET r == ExtractText(upload)
       IN  /\ extracted' = r.result
           /\ calls' = r.calls
           /\ upload' = r.file
    /\ UNCHANGED <<store, engine, from_bytes, limiter>>

\* The WhatsApp route calls extract_text_from_bytes on the bytes
\* (whatsapp_routes.py line 90)
CallExtractTextFromBytes ==
    /\ from_bytes = NotCalled
    /\ from_bytes' = ExtractTextFromBytes(upload.pdf)
    /\ UNCHANGED <<store, engine, upload, extracted, calls, limiter>>

ExtractNext == CallExtractText \/ CallExtractTextFromBytes

ExtractSpec == ExtractInit /\ [][ExtractNext]_vars

\* -------------------------------------------------------- the rate limiter

\* is_allowed lines 22-25: the block list, then the clock
IsAllowedEnter(t, identifier, limit) ==
    /\ frame[t].pc = "idle"
    /\ Len(admitted) < MaxAdmitted
    /\ frame' = [frame EXCEPT ![t] =
          IF identifier \in blocked_ips
          THEN Frame("idle", identifier, limit, 0, <<>>, "False")
          ELSE Frame("clean", identifier, limit, now, <<>>, "none")]
    /\ UNCHANGED <<store, engine, extractor, requests, blocked_ips, admitted>>

\* lines 28-34: the new list is built
IsAllowedFilter(t) ==
    /\ frame[t].pc = "clean"
    /\ frame' = [frame EXCEPT ![t].pc = "assign", ![t].kept =
          IF frame[t].identifier \in DOMAIN requests
          THEN Recent(requests[frame[t].identifier], frame[t].current_time,
                      frame[t].limit.window_seconds)
          ELSE <<>>]
    /\ UNCHANGED <<store, engine, extractor, requests, blocked_ips, admitted>>

\* lines 29 and 34: self.requests[identifier] is set to it
IsAllowedAssign(t) ==
    /\ frame[t].pc = "assign"
    /\ requests' = [i \in (DOMAIN requests) \cup {frame[t].identifier} |->
                      IF i = frame[t].identifier THEN frame[t].kept
                      ELSE requests[i]]
    /\ frame' = [frame EXCEPT ![t].pc = "check"]
    /\ UNCHANGED <<store, engine, extractor, blocked_ips, admitted>>

\* lines 37-39: the length test, and return False
IsAllowedCheck(t) ==
    /\ frame[t].pc = "check"
    /\ frame' = [frame EXCEPT ![t] =
          IF Len(requests[frame[t].identifier])
                >= frame[t].limit.max_requests
          THEN Frame("idle", @.identifier, @.limit, 0, <<>>, "False")
          ELSE [@ EXCEPT !.pc = "append"]]
    /\ UNCHANGED <<store, engine, extractor, requests, blocked_ips, admitted>>

\* lines 42-43: append, and return True
IsAllowedAppend(t) ==
    /\ frame[t].pc = "append"
    /\ requests' = [requests EXCEPT ![frame[t].identifier] =
                      Append(@, frame[t].current_time)]
    /\ admitted' = Append(admitted,
                      [identifier |-> frame[t].identifier,
                       limit |-> frame[t].limit,
                       time |-> frame[t].current_time])
    /\ frame' = [frame EXCEPT ![t] =
                   Frame("idle", @.identifier, @.limit, 0, <<>>, "True")]
    /\ UNCHANGED <<store, engine, extractor, blocked_ips>>

\* block_ip line 47
BlockIp(ip) ==
    /\ ip \notin blocked_ips
    /\ blocked_ips' = blocked_ips \cup {ip}
    /\ UNCHANGED <<store, engine, extractor, requests, frame, admitted>>

LimiterNext ==
    \/ Tick
    \/ \E t \in Threads : \E identifier \in Identifiers : \E limit \in Limits :
          IsAllowedEnter(t, identifier, limit)
    \/ \E t \in Threads : IsAllowedFilter(t)
    \/ \E t \in Threads : IsAllowedAssign(t)
    \/ \E t \in Threads : IsAllowedCheck(t)
    \/ \E t \in Threads : IsAllowedAppend(t)
    \/ \E ip \in Identifiers : BlockIp(ip)

LimiterSpec == Init /\ [][LimiterNext]_vars

\* -------------------------------------------------- claims: the extractor

\* What a library yields for the upload: nothing when its open raises
Yield(view) == IF view.open_error = "" THEN FullText(view) ELSE <<>>
YieldA == Yield(upload.pdf.pdfplumber)
YieldB == Yield(upload.pdf.pypdf2)
MeetsThreshold(text) == Len(Strip(text)) >= 10
Called == calls # <<>>
FromStart(name) == [name |-> name, tell |-> "start"]

\* C21: extract_text runs pdfplumber first, from the start of the file, and
\* returns its text when the stripped length is at least 10; PyPDF2 is run
\* only when pdfplumber was not accepted, from the start of the file again,
\* under the same threshold; success is reported exactly when one of the two
\* met the threshold, and the text is that of the first that did.
C21_FirstAcceptedStrategy ==
    Called =>
       /\ calls[1] = FromStart("pdfplumber")
       /\ MeetsThreshold(YieldA) =>
             /\ Len(calls) = 1
             /\ extracted = Extraction(TRUE, YieldA, NoReason)
       /\ ~MeetsThreshold(YieldA) =>
             /\ Len(calls) = 2
             /\ calls[2] = FromStart("PyPDF2")
             /\ MeetsThreshold(YieldB) =>
                   extracted = Extraction(TRUE, YieldB, NoReason)
       /\ extracted.success <=>
             (MeetsThreshold(YieldA) \/ MeetsThreshold(YieldB))

\* C21 witness: pdfplumber was not accepted and PyPDF2's text was returned
C21_Witness ==
    /\ Len(calls) = 2
    /\ extracted.success
    /\ extracted.text = YieldB
    /\ upload.pdf.pdfplumber.open_error = ""

\* C22: when both libraries raise on opening the bytes, extract_text returns
\* success False, an empty text and a non-empty error message.
C22_InvalidPdfFails ==
    (/\ Called
     /\ upload.pdf.pdfplumber.open_error # ""
     /\ upload.pdf.pypdf2.open_error # "") =>
       /\ ~extracted.success
       /\ extracted.text = <<>>
       /\ extracted.error # NoReason
       /\ extracted.error.text # ""

\* C22 witness: extract_text has returned for bytes neither library opens
C22_Witness ==
    /\ Called
    /\ upload.pdf.pdfplumber.open_error # ""
    /\ upload.pdf.pypdf2.open_error # ""
    /\ ~extracted.success

\* C23: when neither strategy met the threshold, the error tells the causes
\* apart: a document both libraries opened without finding text gets the
\* image-only reason, and bytes on which the strategies raised get an
\* extraction-error reason that carries the detail of the error.
C23_ErrorTellsCause ==
    (Called /\ ~extracted.success) =>
       /\ (/\ upload.pdf.pdfplumber.open_error = ""
           /\ upload.pdf.pypdf2.open_error = "") =>
             extracted.error = Reason(ImageOnly, "")
       /\ (/\ upload.pdf.pdfplumber.open_error # ""
           /\ upload.pdf.pypdf2.open_error # "") =>
             /\ extracted.error.text # ImageOnly
             /\ extracted.error.detail # ""

\* The view of the library whose text extract_text returned
AcceptedView ==
    IF Len(calls) = 1 THEN upload.pdf.pdfplumber ELSE upload.pdf.pypdf2

\* The positions in text where a line starts with a dash
LineStarts(text) ==
    {i \in 1..Len(text) : text[i] = "-" /\ (i = 1 \/ text[i - 1] = "\n")}

ParseDigit(c) == CHOOSE d \in 0..9 : Digit(d) = c

\* The page number written in the marker that starts at position i
MarkerPage(text, i) ==
    IF text[i + 10] = " " THEN ParseDigit(text[i + 9])
    ELSE 10 * ParseDigit(text[i + 9]) + ParseDigit(text[i + 10])

\* At position i stands the block of page n (1-based) with this page text
BlockAt(text, i, n, page_text) ==
    LET block == <<"-", "-", "-", " ", "P", "a", "g", "e", " ">>
                    \o Decimal(n) \o <<" ", "-", "-", "-", "\n">>
                    \o page_text \o <<"\n">>
    IN  /\ i + Len(block) - 1 <= Len(text)
        /\ SubSeq(text, i, i + Len(block) - 1) = block

\* The pages (1-based) among the first 50 on which a library found text
PagesWithText(view) ==
    {n \in 1..view.total_pages :
        /\ n <= 50
        /\ ~ExtractPage(view, n - 1).raises
        /\ ExtractPage(view, n - 1).text # <<>>}

\* C24: the accepted text has exactly one "--- Page n ---" block for each
\* page n among the first min(N, 50) whose extraction yielded text, in
\* ascending order of n, and no other block: pages beyond the cap add
\* nothing, and a page that raises is skipped without ending the loop.
C24_OneBlockPerPage ==
    (Called /\ extracted.success) =>
       LET text == extracted.text
           starts == LineStarts(text)
           pages == PagesWithText(AcceptedView)
       IN  /\ {MarkerPage(text, i) : i \in starts} = pages
           /\ Cardinality(starts) = Cardinality(pages)
           /\ \A i \in starts :
                 BlockAt(text, i, MarkerPage(text, i),
                         ExtractPage(AcceptedView,
                                     MarkerPage(text, i) - 1).text)
           /\ \A i \in starts : \A j \in starts :
                 i < j => MarkerPage(text, i) < MarkerPage(text, j)

\* C24 witness: a document with more pages than the cap, one of which
\* raises, was accepted with a block for each of the other first 50 pages
C24_Witness ==
    /\ Called
    /\ extracted.success
    /\ AcceptedView.total_pages > 50
    /\ AcceptedView.other = PageRaises
    /\ Cardinality(LineStarts(extracted.text)) = 49

\* C25: on the same bytes extract_text succeeds exactly when
\* extract_text_from_bytes returns a text, and the two texts are the same.
C25_EntryPointsAgree ==
    (Called /\ from_bytes # NotCalled) =>
       /\ extracted.success <=> (from_bytes.exc = "")
       /\ extracted.success => extracted.text = from_bytes.text

\* C25 witness: both have run on a long document that only PyPDF2 reads
C25_Witness ==
    /\ Len(calls) = 2
    /\ from_bytes.exc = ""
    /\ extracted.success
    /\ from_bytes.text = YieldB
    /\ upload.pdf.pypdf2.total_pages > 50

\* C26: neither entry point raises: extract_text_from_bytes returns, and a
\* failure of extract_text is the tuple with success False and an error.
C26_NoExceptionCrosses ==
    /\ from_bytes # NotCalled => from_bytes.exc = ""
    /\ (Called /\ ~extracted.success) => extracted.error # NoReason

\* A library opened the bytes and found text on one of the pages it processed
FoundText(view) ==
    /\ view.open_error = ""
    /\ \E n \in 1..view.total_pages :
          /\ n <= 50
          /\ ~ExtractPage(view, n - 1).raises
          /\ Len(ExtractPage(view, n - 1).text) > 0

\* C29: the length test counts the page markers, so pdfplumber's output is
\* accepted whenever one processed page yields a non-empty text, however
\* short, and PyPDF2 is run only when pdfplumber raised or found no text on
\* any processed page.
C29_MarkersCount ==
    Called =>
       /\ FoundText(upload.pdf.pdfplumber) =>
             /\ Len(calls) = 1
             /\ extracted.success
             /\ Len(Strip(extracted.text)) >= 14
       /\ Len(calls) = 2 => ~FoundText(upload.pdf.pdfplumber)
       /\ (Len(calls) = 2 /\ FoundText(upload.pdf.pypdf2)) =>
             extracted.success

\* C29 witness: a document of one page with one character was accepted
C29_Witness ==
    /\ Len(calls) = 1
    /\ extracted.success
    /\ upload.pdf.pdfplumber.total_pages = 1
    /\ upload.pdf.pdfplumber.fill = PageText(<<"x">>)
    /\ Len(Strip(extracted.text)) = 16

\* ----------------------------------------------- claims: the rate limiter

\* The calls with these arguments admitted at a time in [from, from + w)
AdmittedIn(identifier, limit, from) ==
    {j \in 1..Len(admitted) :
        /\ admitted[j].identifier = identifier
        /\ admitted[j].limit = limit
        /\ from <= admitted[j].time
        /\ admitted[j].time < from + limit.window_seconds}

\* C28: for every identifier and every interleaving of concurrent requests,
\* the calls is_allowed(identifier, m, w) admits within any window of w
\* seconds are at most m, and the history holds admitted requests only.
C28_AtMostMaxRequests ==
    /\ \A i \in 1..Len(admitted) :
          Cardinality(AdmittedIn(admitted[i].identifier, admitted[i].limit,
                                 admitted[i].time))
             <= admitted[i].limit.max_requests
    /\ \A identifier \in DOMAIN requests :
          \A k \in 1..Len(requests[identifier]) :
             \E j \in 1..Len(admitted) :
                /\ admitted[j].identifier = identifier
                /\ admitted[j].time = requests[identifier][k]

====
